---- MODULE Spec2Model ----
(***************************************************************************)
(* State-machine model of src/yt_polling_v2.py: the quota estimator, the   *)
(* batch planner, the test-mode sample call and the polling loop with its  *)
(* retry/backoff handling and CSV persistence.                             *)
(*                                                                         *)
(* Time is the number of whole seconds elapsed since `start` (line 150).   *)
(* The clock advances while the program sleeps or waits for a fetch: a     *)
(* sleep of w seconds advances it by w plus an overshoot, a fetch by its   *)
(* duration; overshoots and fetch durations of a run add up to at most     *)
(* MaxDrift seconds.  A timestamp string produced by isoformat()   *)
(* is represented by the clock value it formats (the format is injective   *)
(* and order preserving).  t0_hours enters only as t0_hours * 3600, kept   *)
(* here as t0_seconds.  A CSV file is represented by what the claims read  *)
(* of it: its numbers of header and data rows, the kind of its first row,  *)
(* the ids and the last timestamp written, and whether the timestamps of   *)
(* its data rows are strictly increasing.                                  *)
(***************************************************************************)
EXTENDS Integers, Sequences, FiniteSets, TLC

\* ------------------------------------------------------------ constants
DEFAULT_INTERVAL == 60
SecondsPerHour == 3600
MAX_BATCH == 50
backoff_initial == 2
max_retries == 6
start == 0

\* --------------------------------------------------------------- bounds
MaxVideos == 101
MaxPlanVideos == 120
MaxInterval == 2
MaxT0Seconds == 5
LongT0Seconds == 190
MaxCallsArg == 2
MaxDrift == 1
MaxFailures == 8

None == <<>>
HttpErrorStatuses == {403, 429, 503}

VARIABLES
    mode,          \* "test" | "run" (--mode)
    video_ids,     \* args.video
    interval,      \* args.interval
    t0_seconds,    \* args.t0_hours * 3600
    max_calls,     \* args.max_calls: None or <<k>>
    pc,            \* control position
    error,         \* name of the uncaught exception, "" if none
    now,           \* utcnow() - start, in seconds
    end_time,      \* end (line 151)
    intervals,     \* estimate computed at lines 141 / 152 / 231
    vid_batches,   \* line 161
    call_count,    \* line 163 / 177
    ts_now,        \* line 168
    batch_i,       \* position of the for loop of line 169 (1-based)
    attempt,       \* line 172 / 186
    status,        \* line 181-185, 0 for None
    files,         \* csv_path -> file, keyed by video id; DOMAIN = existing files
    dirs,          \* video ids whose output directory exists
    fetch_arg,     \* argument of the latest videos_list_stats call
    \* history variables (observations only, never read by the program)
    fetches,       \* number of videos_list_stats invocations so far
    failures,      \* number of those that raised HttpError
    round,         \* number of rounds started (iterations of line 167)
    tries,         \* fetch invocations for the current batch in this round
    sawFatal,      \* a non-429/5xx error was raised for the current batch
    sawBackoff,    \* a backoff sleep was taken for the current batch
    started,       \* batches whose fetch was invoked in this round
    skipped,       \* batches given up (line 188) in this round
    prevSkipped,   \* batches given up in the previous round
    cut,           \* batch position at which line 171 broke out, 0 if none
    roundTs,       \* timestamps written to the sink in this round
    drift,         \* seconds spent in fetches and beyond the requested sleeps
    waits,         \* backoff sleeps requested for the current batch, in order
    prevMaxTs,     \* latest timestamp written in the earlier rounds
    appends        \* video id -> number of append operations on its file

vars == <<mode, video_ids, interval, t0_seconds, max_calls, pc, error, now,
          end_time, intervals, vid_batches, call_count, ts_now, batch_i,
          attempt, status, files, dirs, fetch_arg, fetches, failures, round,
          tries, sawFatal, sawBackoff, started, skipped, prevSkipped, cut,
          roundTs, drift, waits, prevMaxTs, appends>>

planVars == <<mode, video_ids, interval, t0_seconds, max_calls>>
histVars == <<fetches, failures, round, tries, sawFatal, sawBackoff, started,
              skipped, prevSkipped, cut, roundTs, drift, waits, prevMaxTs,
              appends>>
auxVars == <<waits, prevMaxTs, appends>>

\* ------------------------------------------------------------- helpers
Min(a, b) == IF a < b THEN a ELSE b

Range(s) == {s[k] : k \in DOMAIN s}

\* math.ceil(a / b) for integers a, b with b # 0.
CeilDiv(a, b) == IF b > 0 THEN -((-a) \div b) ELSE -(a \div (-b))

Slice_EndInclusive(ids, lo, hi) == SubSeq(ids, lo + 1, Min(hi + 1, Len(ids)))

\* ids[lo:hi] (0-based, end exclusive, clamped to the length).
Slice(ids, lo, hi) == SubSeq(ids, lo + 1, Min(hi, Len(ids)))

IsoFormat_Coarse(t) == t \div 60

\* datetime.utcnow().isoformat() at clock value t.
IsoFormat(t) == t

\* HTTP status classes named by the module docstring (line 12): 429/5xx.
IsTransient(s) == s = 429 \/ (s >= 500 /\ s <= 599)

\* ------------------------------------------------------ pure functions
\* estimate_calls (lines 123-126); the caller guards poll_interval_sec # 0.
estimate_calls(num_videos, poll_interval_sec, t0) ==
    CeilDiv(t0, poll_interval_sec)

\* [video_ids[i:i + MAX_BATCH] for i in range(0, len(video_ids), MAX_BATCH)]
RECURSIVE BatchesFrom(_, _)
BatchesFrom(ids, i) ==
    IF i >= Len(ids) THEN <<>>
    ELSE <<Slice(ids, i, i + MAX_BATCH)>> \o BatchesFrom(ids, i + MAX_BATCH)

VidBatches(ids) == BatchesFrom(ids, 0)

\* open(csv_path, "a") on a path that does not exist (line 112).
EmptyFile ==
    [header_rows |-> 0, data_rows |-> 0, first |-> "none", ids |-> {},
     last_ts |-> IsoFormat(start), increasing |-> TRUE]

\* writer.writerow(csv_headers())  (line 115)
WriteHeader(file) ==
    [file EXCEPT !.header_rows = @ + 1,
                 !.first = IF file.first = "none" THEN "header" ELSE @]

\* writer.writerow([vid, ts, ...])  (lines 116-120)
WriteData(file, vid, ts) ==
    [file EXCEPT !.data_rows = @ + 1,
                 !.first = IF file.first = "none" THEN "data" ELSE @,
                 !.ids = @ \cup {vid},
                 !.last_ts = ts,
                 !.increasing = @ /\ (file.data_rows = 0 \/ ts > file.last_ts)]

HeaderNeeded_Always(f, vid) == TRUE

\* header_needed = not os.path.exists(csv_path)  (line 111)
HeaderNeeded(f, vid) == vid \notin DOMAIN f

\* open(csv_path, "a")  (line 112): the file as it is, created if missing.
OpenAppend(f, vid) == IF vid \in DOMAIN f THEN f[vid] ELSE EmptyFile

\* append_rows_to_csv (lines 104-120) for the snapshot keys vids, with ts the
\* timestamp the function reads itself at line 106.
append_rows_to_csv(f, vids, ts) ==
    [v \in (DOMAIN f) \cup vids |->
        IF v \in vids
        THEN WriteData(IF HeaderNeeded(f, v) THEN WriteHeader(OpenAppend(f, v))
                                            ELSE OpenAppend(f, v), v, ts)
        ELSE f[v]]

Backoff_Linear(a) == backoff_initial * a

\* wait = backoff_initial * (2 ** (attempt - 1))  (line 190)
Backoff(a) == backoff_initial * (2 ^ (a - 1))

RetriesExceeded_OffByOne(a) == a >= max_retries

RetriesExceeded_Never(a) == FALSE

\* attempt > max_retries  (line 187)
RetriesExceeded(a) == a > max_retries

\* max_calls is not None and intervals > max_calls  (line 155)
QuotaExceeded(n, mc) == mc # None /\ n > mc[1]

RoundOpen_Inclusive(t, e) == t <= e

\* datetime.datetime.utcnow() < end  (line 167)
RoundOpen(t, e) == t < e

SampleIds_All(ids) == ids

\* sample_ids = video_ids[:MAX_BATCH]  (line 131)
SampleIds(ids) == Slice(ids, 0, MAX_BATCH)

IntervalSleepSeconds_Remaining(iv, elapsed) == elapsed % iv

\* The argument of time.sleep at line 198: the full interval; the remainder
\* computed at line 195 is not used.
IntervalSleepSeconds(iv, elapsed) == iv

NextBatch_SkipsOne(i) == i + 2

\* Batch position the for loop of line 169 moves to after line 179 broke out
\* of the retry loop on success.
NextBatch(i) == i + 1

AfterGiveUp_EndsRound(i, batches) == Len(batches) + 1

\* Batch position the for loop of line 169 moves to after line 189 broke out
\* of the retry loop on giving the batch up: the break leaves only the inner
\* while, so the for loop goes on with the following batch.
AfterGiveUp(i, batches) == i + 1

\* ---------------------------------------------------------------- Init
Ids(n) == [k \in 1..n |-> k]

VideoCounts == {1, MAX_BATCH + 1, MaxVideos}

Plans ==
    {<<n, i, t>> : n \in VideoCounts, i \in -1..MaxInterval,
                   t \in -1..MaxT0Seconds}
    \cup {<<MAX_BATCH + 1, DEFAULT_INTERVAL, LongT0Seconds>>}

MaxCallsArgs == {None, <<MaxCallsArg>>}

InitRest ==
    /\ error = ""
    /\ now = start
    /\ end_time = start
    /\ intervals = 0
    /\ vid_batches = <<>>
    /\ call_count = 0
    /\ ts_now = IsoFormat(start)
    /\ batch_i = 0
    /\ attempt = 0
    /\ status = 0
    /\ files = <<>>
    /\ dirs = {}
    /\ fetch_arg = <<>>
    /\ fetches = 0
    /\ failures = 0
    /\ round = 0
    /\ tries = 0
    /\ sawFatal = FALSE
    /\ sawBackoff = FALSE
    /\ started = {}
    /\ skipped = {}
    /\ prevSkipped = {}
    /\ cut = 0
    /\ roundTs = {}
    /\ drift = 0
    /\ waits = <<>>
    /\ prevMaxTs = IsoFormat(start) - 1
    /\ appends = <<>>

Init ==
    /\ mode \in {"test", "run"}
    /\ \E p \in Plans :
          /\ video_ids = Ids(p[1])
          /\ interval = p[2]
          /\ t0_seconds = p[3]
    /\ max_calls \in MaxCallsArgs
    /\ pc = "main"
    /\ InitRest

\* ---------------------------------------------------------------- main
\* main, lines 228-229: dispatch to do_test_mode.
MainTest ==
    /\ pc = "main" /\ mode = "test"
    /\ pc' = "test_fetch"
    /\ UNCHANGED <<planVars, histVars, error, now, end_time, intervals,
                   vid_batches, call_count, ts_now, batch_i, attempt, status,
                   files, dirs, fetch_arg>>

\* main, lines 230-238: the estimate printed before the confirmation prompt.
MainRun ==
    /\ pc = "main" /\ mode = "run"
    /\ IF interval = 0
       THEN /\ error' = "ZeroDivisionError"
            /\ pc' = "error"
            /\ UNCHANGED intervals
       ELSE /\ intervals' = estimate_calls(Len(video_ids), interval, t0_seconds)
            /\ pc' = "confirm"
            /\ UNCHANGED error
    /\ UNCHANGED <<planVars, histVars, now, end_time, vid_batches, call_count,
                   ts_now, batch_i, attempt, status, files, dirs, fetch_arg>>

\* main, lines 239-243: the operator types YES or anything else.
MainConfirm ==
    /\ pc = "confirm"
    /\ \E yes \in BOOLEAN : pc' = IF yes THEN "run_start" ELSE "cancelled"
    /\ UNCHANGED <<planVars, histVars, error, now, end_time, intervals,
                   vid_batches, call_count, ts_now, batch_i, attempt, status,
                   files, dirs, fetch_arg>>

\* -------------------------------------------------------- do_test_mode
\* Lines 131-140: the sample call returns.
TestFetchOk ==
    /\ pc = "test_fetch"
    /\ fetch_arg' = SampleIds(video_ids)
    /\ fetches' = fetches + 1
    /\ pc' = "test_estimate"
    /\ UNCHANGED <<planVars, error, now, end_time, intervals, vid_batches,
                   call_count, ts_now, batch_i, attempt, status, files, dirs,
                   failures, round, tries, sawFatal, sawBackoff, started,
                   skipped, prevSkipped, cut, roundTs, drift, auxVars>>

\* Lines 131-137: the sample call raises HttpError, which is re-raised.
TestFetchHttpError ==
    /\ pc = "test_fetch"
    /\ fetch_arg' = SampleIds(video_ids)
    /\ fetches' = fetches + 1
    /\ failures' = failures + 1
    /\ error' = "HttpError"
    /\ pc' = "error"
    /\ UNCHANGED <<planVars, now, end_time, intervals, vid_batches,
                   call_count, ts_now, batch_i, attempt, status, files, dirs,
                   round, tries, sawFatal, sawBackoff, started, skipped,
                   prevSkipped, cut, roundTs, drift, auxVars>>

\* Lines 141-145: the estimate is computed after the sample call.
TestEstimate ==
    /\ pc = "test_estimate"
    /\ IF interval = 0
       THEN /\ error' = "ZeroDivisionError"
            /\ pc' = "error"
            /\ UNCHANGED intervals
       ELSE /\ intervals' = estimate_calls(Len(video_ids), interval, t0_seconds)
            /\ pc' = "test_done"
            /\ UNCHANGED error
    /\ UNCHANGED <<planVars, histVars, now, end_time, vid_batches, call_count,
                   ts_now, batch_i, attempt, status, files, dirs, fetch_arg>>

\* ---------------------------------------------------- run_polling_loop
\* Lines 149-165: ensure_out_dirs, the estimate, the --max_calls check and
\* the batch plan.  main has already evaluated estimate_calls, so interval # 0.
RunPreflight ==
    /\ pc = "run_start"
    /\ dirs' = dirs \cup Range(video_ids)
    /\ end_time' = now + t0_seconds
    /\ intervals' = estimate_calls(Len(video_ids), interval, t0_seconds)
    /\ IF QuotaExceeded(intervals', max_calls)
       THEN /\ pc' = "aborted"
            /\ UNCHANGED vid_batches
       ELSE /\ vid_batches' = VidBatches(video_ids)
            /\ pc' = "while"
    /\ call_count' = 0
    /\ UNCHANGED <<planVars, histVars, error, now, ts_now, batch_i, attempt,
                   status, files, fetch_arg>>

\* Lines 167-168 and 199: the deadline test that opens a round.
WhileCheck ==
    /\ pc = "while"
    /\ IF RoundOpen(now, end_time)
       THEN /\ ts_now' = IsoFormat(now)
            /\ batch_i' = 1
            /\ round' = round + 1
            /\ prevSkipped' = skipped
            /\ skipped' = {}
            /\ started' = {}
            /\ cut' = 0
            /\ roundTs' = {}
            /\ prevMaxTs' = IF roundTs = {} THEN prevMaxTs
                            ELSE CHOOSE t \in roundTs : \A u \in roundTs : u <= t
            /\ pc' = "for"
       ELSE /\ pc' = "completed"
            /\ UNCHANGED <<ts_now, batch_i, round, prevSkipped, skipped,
                           started, cut, roundTs, prevMaxTs>>
    /\ UNCHANGED <<planVars, error, now, end_time, intervals, vid_batches,
                   call_count, attempt, status, files, dirs, fetch_arg,
                   fetches, failures, tries, sawFatal, sawBackoff, drift,
                   waits, appends>>

\* Lines 169-172: next batch of the round, or the mid-round deadline break.
ForCheck ==
    /\ pc = "for"
    /\ IF batch_i > Len(vid_batches)
       THEN /\ pc' = "interval_sleep"
            /\ UNCHANGED <<attempt, tries, sawFatal, sawBackoff, cut, waits>>
       ELSE IF now >= end_time
            THEN /\ pc' = "interval_sleep"
                 /\ cut' = batch_i
                 /\ UNCHANGED <<attempt, tries, sawFatal, sawBackoff, waits>>
            ELSE /\ pc' = "fetch"
                 /\ attempt' = 0
                 /\ tries' = 0
                 /\ sawFatal' = FALSE
                 /\ sawBackoff' = FALSE
                 /\ waits' = <<>>
                 /\ UNCHANGED cut
    /\ UNCHANGED <<planVars, error, now, end_time, intervals, vid_batches,
                   call_count, ts_now, batch_i, status, files, dirs,
                   fetch_arg, fetches, failures, round, started, skipped,
                   prevSkipped, roundTs, drift, prevMaxTs, appends>>

\* Lines 175-179: the fetch returns a record for every id of the batch and
\* the rows are appended with the timestamp append_rows_to_csv reads itself.
FetchOk ==
    /\ pc = "fetch"
    /\ \E d \in 0..(MaxDrift - drift) :
          /\ now' = now + d
          /\ drift' = drift + d
    /\ fetch_arg' = vid_batches[batch_i]
    /\ files' = append_rows_to_csv(files, Range(vid_batches[batch_i]),
                                   IsoFormat(now'))
    /\ dirs' = dirs \cup Range(vid_batches[batch_i])
    /\ roundTs' = roundTs \cup {IsoFormat(now')}
    /\ appends' = [v \in (DOMAIN appends) \cup Range(vid_batches[batch_i]) |->
                      IF v \in Range(vid_batches[batch_i])
                      THEN (IF v \in DOMAIN appends THEN appends[v] ELSE 0) + 1
                      ELSE appends[v]]
    /\ call_count' = call_count + 1
    /\ fetches' = fetches + 1
    /\ tries' = tries + 1
    /\ started' = started \cup {batch_i}
    /\ batch_i' = NextBatch(batch_i)
    /\ status' = 0
    /\ pc' = "for"
    /\ UNCHANGED <<planVars, error, end_time, intervals, vid_batches,
                   ts_now, attempt, failures, round, sawFatal, sawBackoff,
                   skipped, prevSkipped, cut, waits, prevMaxTs>>

\* Lines 175 and 180-191: the fetch raises HttpError with some status; the
\* handler counts the attempt and either gives the batch up or backs off.
\* status is read only by the print of line 191, so its value is dropped
\* (0) once the retry loop is left.
FetchRaises ==
    /\ pc = "fetch"
    /\ \E d \in 0..(MaxDrift - drift) :
          /\ now' = now + d
          /\ drift' = drift + d
    /\ \E s \in HttpErrorStatuses :
          /\ sawFatal' = (sawFatal \/ ~IsTransient(s))
          /\ IF RetriesExceeded(attempt + 1)
             THEN /\ skipped' = skipped \cup {batch_i}
                  /\ batch_i' = AfterGiveUp(batch_i, vid_batches)
                  /\ status' = 0
                  /\ pc' = "for"
             ELSE /\ status' = s
                  /\ pc' = "backoff"
                  /\ UNCHANGED <<skipped, batch_i>>
    /\ fetch_arg' = vid_batches[batch_i]
    /\ attempt' = attempt + 1
    /\ fetches' = fetches + 1
    /\ failures' = failures + 1
    /\ tries' = tries + 1
    /\ started' = started \cup {batch_i}
    /\ UNCHANGED <<planVars, error, end_time, intervals, vid_batches,
                   call_count, ts_now, files, dirs, round, sawBackoff,
                   prevSkipped, cut, roundTs, auxVars>>

\* FetchRaises while the run has had fewer than MaxFailures failed fetches.
FetchHttpError == failures < MaxFailures /\ FetchRaises

\* Line 192: time.sleep(wait) returns.
BackoffSleep ==
    /\ pc = "backoff"
    /\ \E over \in 0..(MaxDrift - drift) :
          /\ now' = now + Backoff(attempt) + over
          /\ drift' = drift + over
    /\ sawBackoff' = TRUE
    /\ waits' = Append(waits, Backoff(attempt))
    /\ pc' = "fetch"
    /\ UNCHANGED <<planVars, error, end_time, intervals, vid_batches,
                   call_count, ts_now, batch_i, attempt, status, files, dirs,
                   fetch_arg, fetches, failures, round, tries, sawFatal,
                   started, skipped, prevSkipped, cut, roundTs, prevMaxTs,
                   appends>>

\* Lines 195-198: time.sleep(interval); a negative argument raises ValueError.
IntervalSleep ==
    /\ pc = "interval_sleep"
    /\ IF interval < 0
       THEN /\ error' = "ValueError"
            /\ pc' = "error"
            /\ UNCHANGED <<now, drift>>
       ELSE /\ \E over \in 0..(MaxDrift - drift) :
                  /\ now' = now + IntervalSleepSeconds(interval, now - start)
                                 + over
                  /\ drift' = drift + over
            /\ pc' = "while"
            /\ UNCHANGED error
    /\ UNCHANGED <<planVars, fetches, failures, round, tries, sawFatal,
                   sawBackoff, started, skipped, prevSkipped, cut, roundTs,
                   auxVars, end_time, intervals, vid_batches,
                   call_count, ts_now, batch_i, attempt, status, files, dirs,
                   fetch_arg>>

\* Lines 192 and 198: the operator interrupts a sleep; KeyboardInterrupt is
\* not an HttpError, nothing catches it, and it leaves run_polling_loop.
KeyboardInterrupt ==
    /\ pc \in {"backoff", "interval_sleep"}
    /\ error' = "KeyboardInterrupt"
    /\ pc' = "error"
    /\ UNCHANGED <<planVars, histVars, now, end_time, intervals, vid_batches,
                   call_count, ts_now, batch_i, attempt, status, files, dirs,
                   fetch_arg>>

Next ==
    \/ MainTest
    \/ MainRun
    \/ MainConfirm
    \/ TestFetchOk
    \/ TestFetchHttpError
    \/ TestEstimate
    \/ RunPreflight
    \/ WhileCheck
    \/ ForCheck
    \/ FetchOk
    \/ FetchHttpError
    \/ BackoffSleep
    \/ IntervalSleep
    \/ KeyboardInterrupt

Spec == Init /\ [][Next]_vars

\* ------------------------------------------- the pure functions alone
\* estimate_calls and the batch plan applied to inputs drawn from bounded
\* sets, among them the documented defaults (60 s, whole hours).
InitPure ==
    /\ mode = "run"
    /\ video_ids \in {Ids(n) : n \in 1..MaxPlanVideos}
    /\ interval \in (1..MaxInterval) \cup {DEFAULT_INTERVAL}
    /\ t0_seconds \in (1..MaxT0Seconds) \cup {SecondsPerHour}
    /\ max_calls = None
    /\ pc = "pure"
    /\ InitRest

PureEstimate ==
    /\ pc = "pure"
    /\ intervals' = estimate_calls(Len(video_ids), interval, t0_seconds)
    /\ pc' = "estimated"
    /\ UNCHANGED <<planVars, histVars, error, now, end_time, vid_batches,
                   call_count, ts_now, batch_i, attempt, status, files, dirs,
                   fetch_arg>>

PureBatches ==
    /\ pc = "estimated"
    /\ vid_batches' = VidBatches(video_ids)
    /\ pc' = "planned"
    /\ UNCHANGED <<planVars, histVars, error, now, end_time, intervals,
                   call_count, ts_now, batch_i, attempt, status, files, dirs,
                   fetch_arg>>

NextPure == PureEstimate \/ PureBatches

SpecPure == InitPure /\ [][NextPure]_vars

\* ------------------------------------- runs that are never interrupted
\* Run mode with a positive interval and duration; every fetch returns or
\* raises HttpError, with no limit on the number of failures, and every
\* sleep returns.  Each step that is possible is eventually taken.
LivePlans ==
    {p \in Plans : p[1] <= MAX_BATCH + 1 /\ p[2] >= 1 /\ p[3] >= 1
                       /\ p[3] <= MaxT0Seconds}
        \cup {<<1, DEFAULT_INTERVAL, LongT0Seconds>>}

InitLive ==
    /\ mode = "run"
    /\ \E p \in LivePlans :
          /\ video_ids = Ids(p[1])
          /\ interval = p[2]
          /\ t0_seconds = p[3]
    /\ max_calls = None
    /\ pc = "main"
    /\ InitRest

NextLive ==
    \/ MainRun
    \/ MainConfirm
    \/ RunPreflight
    \/ WhileCheck
    \/ ForCheck
    \/ FetchOk
    \/ FetchRaises
    \/ BackoffSleep
    \/ IntervalSleep

SpecLive == InitLive /\ [][NextLive]_vars /\ WF_vars(NextLive)

\* ============================================================== claims
InvalidPlan == interval <= 0 \/ t0_seconds <= 0

\* Rounds and batches per round as the specification's estimator defines them.
PlannedRounds == CeilDiv(t0_seconds, interval)
BatchesPerRound == CeilDiv(Len(video_ids), MAX_BATCH)

\* The run is inside run_polling_loop, past the --max_calls check.
Underway == pc \in {"while", "for", "fetch", "backoff", "interval_sleep",
                    "completed"}

\* The retry loop of batch batch_i - 1 has just been left by giving up.
JustGaveUp == pc = "for" /\ (batch_i - 1) \in skipped

\* C1: in a run with max_calls set that is not aborted at preflight, the
\* number of fetch invocations (every attempt of every batch of every round)
\* never exceeds max_calls.
C1_FetchesWithinMaxCalls ==
    (mode = "run" /\ max_calls # None /\ ~InvalidPlan /\ Underway)
        => fetches <= max_calls[1]

\* C2: for positive interval and duration and at least one entity, the
\* estimate is rounds x batches per round, with
\* rounds = ceil(duration / interval) and batches = ceil(count / MAX_BATCH);
\* 120 entities, 60 s, one hour give 180.
C2_EstimateIsRoundsTimesBatches ==
    (pc \in {"estimated", "planned"} /\ ~InvalidPlan)
        => /\ intervals = PlannedRounds * BatchesPerRound
           /\ (Len(video_ids) = 120 /\ interval = 60
                  /\ t0_seconds = SecondsPerHour => intervals = 180)

\* C3: if max_calls is set and the estimated total calls of the plan
\* (rounds x batches per round) exceed it, the run is aborted: no fetch is
\* ever invoked and no row is written.
C3_OverBudgetPlanIsAborted ==
    (mode = "run" /\ max_calls # None /\ ~InvalidPlan
        /\ PlannedRounds * BatchesPerRound > max_calls[1])
        => /\ fetches = 0
           /\ DOMAIN files = {}

\* C4 (as stated): a batch whose fetch fails with a transient error on every
\* attempt gets exactly max_retries = 6 attempts in the round, never a 7th.
C4_ExactlyMaxRetriesAttempts ==
    /\ (pc \in {"fetch", "backoff", "for"} /\ ~sawFatal) => tries <= max_retries
    /\ (JustGaveUp /\ ~sawFatal) => tries = max_retries

\* C4 (amended): a batch whose fetch fails with a transient error on every
\* attempt gets exactly max_retries + 1 = 7 attempts in the round (the first
\* one and six retries), never an 8th.
C4_ExactlyMaxRetriesPlusOneAttempts ==
    /\ (pc \in {"fetch", "backoff", "for"} /\ ~sawFatal)
          => tries <= max_retries + 1
    /\ (JustGaveUp /\ ~sawFatal) => tries = max_retries + 1

C4_Witness ==
    JustGaveUp /\ ~sawFatal /\ tries = max_retries + 1 /\ sawBackoff

\* C5: a fetch that fails with a non-transient status (not 429/5xx) fails
\* the batch at once: no backoff sleep is entered for it and the batch has
\* had exactly one attempt when its first error is non-transient.
C5_FatalErrorIsNotRetried ==
    ~InvalidPlan =>
        /\ pc = "backoff" => IsTransient(status)
        /\ (sawFatal /\ ~sawBackoff /\ pc \in {"for", "backoff"}) => tries = 1

\* The step that gives a batch up (line 188).
GiveUpStep == pc = "fetch" /\ skipped' # skipped

\* The current round is over (the for loop of line 169 has been left).
RoundOver == pc \in {"interval_sleep", "while", "completed"}

\* Batch b of the current round has been dealt with: fetched, or skipped by
\* the deadline break of line 171 at position cut <= b.
DealtWith(b) == b \in started \/ (cut # 0 /\ cut <= b)

\* C6: a batch's fetch failure never ends the run.  Giving a batch up moves
\* the for loop to the following batch of the same round and leaves the
\* batch plan as it is; the following batch is fetched unless the deadline
\* check of line 170 stops the round, and a batch given up in one round is
\* fetched again in the next round unless that check stops the round first.
C6_FailedBatchIsSkippedForThisRoundOnly ==
    /\ [][GiveUpStep => /\ pc' = "for"
                        /\ error' = ""
                        /\ batch_i' = batch_i + 1
                        /\ round' = round
                        /\ vid_batches' = vid_batches]_vars
    /\ [](\A b \in skipped :
             (b < Len(vid_batches) /\ (batch_i > b + 1 \/ RoundOver))
                 => DealtWith(b + 1))
    /\ [](\A b \in prevSkipped :
             (batch_i > b \/ RoundOver) => DealtWith(b))

C6_Witness ==
    /\ Len(vid_batches) = 2
    /\ prevSkipped = {1}
    /\ started = {1, 2}
    /\ pc = "interval_sleep"

\* C7: every timestamp persisted in a round is the one read at the start of
\* the round (ts_now, line 168), so all rows of a round carry one timestamp.
C7_RoundRowsCarryRoundTimestamp ==
    (~InvalidPlan /\ Underway) => roundTs \subseteq {ts_now}

\* Concatenation of a sequence of sequences, in order.
RECURSIVE Flatten(_)
Flatten(ss) == IF ss = <<>> THEN <<>> ELSE Head(ss) \o Flatten(Tail(ss))

Sizes(ss) == [k \in DOMAIN ss |-> Len(ss[k])]

\* C8: the batch plan of n ids is a sequence of ceil(n / MAX_BATCH) non-empty
\* slices of at most MAX_BATCH ids each whose concatenation, in order, is the
\* input; 120 ids give sizes 50, 50, 20.
C8_BatchPlanPartitionsInput ==
    pc = "planned" =>
        /\ Len(vid_batches) = CeilDiv(Len(video_ids), MAX_BATCH)
        /\ \A k \in DOMAIN vid_batches :
              Len(vid_batches[k]) >= 1 /\ Len(vid_batches[k]) <= MAX_BATCH
        /\ Flatten(vid_batches) = video_ids
        /\ (Len(video_ids) = 120 => Sizes(vid_batches) = <<50, 50, 20>>)

C8_Witness ==
    /\ pc = "planned"
    /\ Len(video_ids) = 120
    /\ Sizes(vid_batches) = <<50, 50, 20>>

\* C9: a run cancelled during an inter-round or backoff sleep ends in
\* Completed (line 199), with no fetch after the cancellation.
C9_CancelledRunCompletes ==
    (~InvalidPlan /\ error = "KeyboardInterrupt") => pc = "completed"

\* C10: a plan with interval_seconds <= 0 or duration <= 0 is rejected before
\* any fetch, in test mode and in run mode: no fetch, no row written, and the
\* program never runs such a plan to its normal end.
C10_InvalidPlanIsRejectedBeforeAnyCall ==
    InvalidPlan => /\ fetches = 0
                   /\ DOMAIN files = {}
                   /\ pc \notin {"test_done", "completed"}

\* C11: the file of a video that did not exist when the run started holds,
\* after N append operations, exactly one header row, written first, and
\* exactly N data rows; an append to a file that exists writes no header.
C11_OneHeaderThenOneRowPerAppend ==
    /\ [](/\ DOMAIN files = DOMAIN appends
          /\ \A v \in DOMAIN files :
                /\ appends[v] >= 1
                /\ files[v].header_rows = 1
                /\ files[v].first = "header"
                /\ files[v].data_rows = appends[v])
    /\ [][\A v \in DOMAIN files :
              files'[v].header_rows = files[v].header_rows]_vars

C11_Witness ==
    \E v \in DOMAIN files :
        /\ appends[v] = 3
        /\ files[v].header_rows = 1
        /\ files[v].data_rows = 3

\* The first min(n, MAX_BATCH) of the n supplied ids.
FirstIds == [k \in 1..Min(Len(video_ids), MAX_BATCH) |-> video_ids[k]]

\* C12: test mode invokes the fetch exactly once, on the first
\* min(n, MAX_BATCH) of the n supplied ids, and writes nothing, whether the
\* fetch returns or raises.
C12_TestModeFetchesOnceAndWritesNothing ==
    mode = "test" =>
        /\ fetches <= 1
        /\ DOMAIN files = {}
        /\ dirs = {}
        /\ pc \in {"test_estimate", "test_done", "error"} =>
              /\ fetches = 1
              /\ fetch_arg = FirstIds
              /\ Len(fetch_arg) <= MAX_BATCH

C12_Witness ==
    /\ mode = "test"
    /\ pc = "error"
    /\ error = "HttpError"
    /\ Len(video_ids) > MAX_BATCH
    /\ Len(fetch_arg) = MAX_BATCH
    /\ fetches = 1

\* A run of a single-entity plan whose every fetch succeeded has reached
\* the end of the polling loop.
SingleEntityRunDone ==
    /\ pc = "completed"
    /\ Len(video_ids) = 1
    /\ failures = 0
    /\ ~InvalidPlan

\* Time left in the window when the last planned round is due.
LastRoundSlack == t0_seconds - (PlannedRounds - 1) * interval

\* C13 (as stated): a single-entity run with an always-succeeding fetch
\* persists exactly ceil(duration / interval) observations (5 for 1 s and
\* 5 s), all with the same entity id and strictly increasing timestamps.
C13_ExactlyPlannedObservations ==
    SingleEntityRunDone =>
        \A v \in Range(video_ids) :
            /\ v \in DOMAIN files
            /\ files[v].data_rows = PlannedRounds
            /\ (interval = 1 /\ t0_seconds = 5 => files[v].data_rows = 5)
            /\ files[v].ids = {v}
            /\ files[v].increasing

\* C13 (amended): such a run persists one observation per round started,
\* at most ceil(duration / interval) of them, and exactly that many when
\* the time spent in fetches and beyond the requested sleeps is less than
\* the time left in the window when the last planned round is due; all
\* observations have the same entity id and strictly increasing timestamps.
C13_AtMostPlannedObservations ==
    SingleEntityRunDone =>
        \A v \in Range(video_ids) :
            /\ v \in DOMAIN files
            /\ DOMAIN files = {v}
            /\ files[v].data_rows = round
            /\ files[v].data_rows >= 1
            /\ files[v].data_rows <= PlannedRounds
            /\ (drift < LastRoundSlack => files[v].data_rows = PlannedRounds)
            /\ files[v].ids = {v}
            /\ files[v].increasing

C13_Witness ==
    /\ SingleEntityRunDone
    /\ interval = 1
    /\ t0_seconds = 5
    /\ drift = 0
    /\ \E v \in DOMAIN files : files[v].data_rows = 5 /\ files[v].increasing

\* C14: every fetch attempt of a run, the retries that follow a backoff sleep
\* included, starts strictly before the deadline: the run never stands at
\* the fetch call of line 175 at or after the deadline.
C14_NoFetchAtOrAfterDeadline ==
    (mode = "run" /\ ~InvalidPlan /\ pc = "fetch") => now < end_time

\* C15: after a round ends the run sleeps for the interval only if the
\* deadline has not been reached: it never stands at the sleep of line 198
\* at or after the deadline.
C15_NoSleepAtOrAfterDeadline ==
    (mode = "run" /\ ~InvalidPlan /\ pc = "interval_sleep") => now < end_time

RECURSIVE SumSeq(_)
SumSeq(q) == IF q = <<>> THEN 0 ELSE Head(q) + SumSeq(Tail(q))

\* The backoff schedule the specification gives for the defaults.
DefaultWaits == <<2, 4, 8, 16, 32, 64>>

\* C16: the backoff sleep requested after the k-th failed attempt of a batch
\* is backoff_initial * 2^(k-1) seconds (2, 4, 8, 16, 32, 64), so the backoff
\* requested for one batch in one round is never more than 126 s and is
\* exactly 126 s when the batch is given up.
C16_BackoffDoublesUpTo126 ==
    /\ Len(waits) <= max_retries
    /\ \A k \in DOMAIN waits : waits[k] = backoff_initial * (2 ^ (k - 1))
    /\ waits = SubSeq(DefaultWaits, 1, Len(waits))
    /\ SumSeq(waits) <= 126
    /\ JustGaveUp => SumSeq(waits) = 126
    /\ pc = "backoff" => Len(waits) = attempt - 1

C16_Witness ==
    /\ JustGaveUp
    /\ waits = DefaultWaits
    /\ SumSeq(waits) = 126
    /\ tries = Len(waits) + 1

\* C17: once the deadline check of line 170 has cut a round at batch cut,
\* the batches cut.. of that round have had no fetch and nothing is fetched
\* or written in the rest of the run; within a round batches are started in
\* plan order, each at most once.
C17_CutBatchesAreNeverFetched ==
    /\ [][cut # 0 => /\ fetches' = fetches
                     /\ started' = started
                     /\ files' = files
                     /\ round' = round]_vars
    /\ [](cut # 0 => /\ now >= end_time
                     /\ started = 1..(cut - 1)
                     /\ pc \notin {"for", "fetch", "backoff"})
    /\ [](pc = "fetch" =>
             /\ batch_i \in DOMAIN vid_batches
             /\ started = 1..(IF tries = 0 THEN batch_i - 1 ELSE batch_i))
    /\ [][(pc = "fetch" /\ tries = 0 /\ fetches' # fetches)
             => batch_i \notin started]_vars

C17_Witness ==
    /\ pc = "completed"
    /\ Len(vid_batches) = 3
    /\ cut = 2
    /\ started = {1}
    /\ round = 2

\* Batches whose rows have been written in the current round.
WrittenThisRound == (started \ skipped) \ (IF pc = "fetch" THEN {batch_i} ELSE {})

\* C18: a write follows, in plan order, the writes already made in its
\* round and carries a timestamp not smaller than theirs; every timestamp
\* written in a round is strictly greater than every timestamp written in
\* the earlier rounds.
C18_WritesAreOrdered ==
    /\ [][files' # files =>
             /\ pc = "fetch"
             /\ \A b \in WrittenThisRound : b < batch_i
             /\ \A ts \in roundTs : ts <= IsoFormat(now')
             /\ IsoFormat(now') > prevMaxTs
             /\ round' = round]_vars
    /\ [](\A ts \in roundTs : ts > prevMaxTs)
    /\ [](\A v \in DOMAIN files : files[v].increasing)

C18_Witness ==
    /\ pc = "for"
    /\ round = 2
    /\ started = {1, 2}
    /\ skipped = {}
    /\ prevMaxTs >= IsoFormat(start)
    /\ roundTs # {}

\* C19: for a positive interval and duration the number of rounds started
\* never exceeds the round count ceil(duration / interval) computed at
\* preflight, whatever the fetches do.
C19_RoundsWithinPlannedRounds ==
    (mode = "run" /\ ~InvalidPlan /\ Underway) =>
        /\ intervals = PlannedRounds
        /\ round <= intervals
        /\ (round - 1) * interval < t0_seconds

C19_Witness ==
    /\ pc = "completed"
    /\ intervals = 4
    /\ round = intervals
    /\ failures >= 1
    /\ sawBackoff

\* C20: the retry loop of a batch ends after at most max_retries + 1
\* attempts and max_retries backoff sleeps, and a run inside the polling loop
\* eventually reaches the end of the loop, whatever the fetches do.
C20_RunEventuallyCompletes ==
    /\ [](tries <= max_retries + 1)
    /\ [](Len(waits) <= max_retries)
    /\ (Underway ~> pc = "completed")

C20_Witness ==
    /\ pc = "completed"
    /\ failures = 2 * (max_retries + 1)
    /\ round >= 2

====
